---- MODULE Spec2Model ----
(***************************************************************************)
(* Model of the asynchronous job pollers of mcp-video-gen:                 *)
(*   pollRunwayTask  (utils/polling.ts, here src/unnamed/part_001)         *)
(*   pollLumaTask    (src/src/utils/luma-polling.ts)                       *)
(* One poll session is one call of a poller: a setInterval timer whose     *)
(* async callback counts the attempt, issues one status fetch, and, when   *)
(* the fetch returns, classifies the result, sends a progress message and  *)
(* possibly settles the promise the poller returned.  setInterval does not *)
(* wait for the callback's promise, so a tick may start while earlier      *)
(* fetches are still awaited; the code after each await runs atomically.   *)
(* A fetch may return in any order relative to the others and to the       *)
(* ticks, or never.  In Spec the notification channel accepts every        *)
(* message: mcpExchange.sendProgress returns normally.                     *)
(***************************************************************************)
EXTENDS Integers, Sequences, FiniteSets, TLC

VARIABLES
    provider,           \* which poller runs: "runwayml" | "lumaai"
    expectedAssetType,  \* pollLumaTask's expectedAssetType argument
    progressToken,      \* the progressToken argument (Undefined when absent)
    attempts,           \* let attempts
    intervalId,         \* the setInterval handle: "armed" | "cleared"
    inflight,           \* ticks whose status fetch is awaited
    fetches,            \* number of status fetches issued so far
    last,               \* the fetch completion processed last: its tick and result
    emitted,            \* the calls of the poller's sendProgress, in order
    channel,            \* the messages handed to mcpExchange.sendProgress, in order
    outcome,            \* the promise returned by the poller
    taskId,             \* the job ID the poller was given (taskId / generationId)
    env,                \* process.env: the three API keys
    tool,               \* the tool named by the CallTool request ("none": no request)
    args,               \* request.params.arguments
    pc,                 \* where the server / the tool call stands
    created,            \* the create-job calls made on the providers, in order
    createResp,         \* what the create-job call returned (task / generation)
    toolResult,         \* what the tool call returned or threw
    thenDone,           \* luma_generate_image's .then callback has run
    peer                \* the poll session of another tool call (a record)

\* the state of the poll session
pollVars == <<provider, expectedAssetType, progressToken, attempts, intervalId,
              inflight, fetches, last, emitted, channel, outcome, taskId>>

\* the state of the server and of the tool call
toolVars == <<env, tool, args, pc, created, createResp, toolResult, thenDone, peer>>

vars == <<provider, expectedAssetType, progressToken, attempts, intervalId,
          inflight, fetches, last, emitted, channel, outcome, taskId,
          env, tool, args, pc, created, createResp, toolResult, thenDone, peer>>

----------------------------------------------------------------------------
(* Bounds and program constants *)

\* MAX_POLLING_ATTEMPTS is 60 in both pollers; the model scales it down.
MAX_POLLING_ATTEMPTS == 2

\* JavaScript's undefined and null, as values a string-typed field may hold
Undefined == "<undefined>"
Null == "<null>"

Truthy(v) == v \notin {Undefined, Null, ""}

\* the job ID handed to the poller (taskId / generationId)
JobId == taskId

\* an ID as a provider returns it for a created job
NewJobId == "job-1"

VideoUrl == "https://x/video.mp4"
ImageUrl == "https://x/image.png"

Providers == {"runwayml", "lumaai"}
ExpectedAssetTypes == {"video", "image", "upscaled_video"}
ProgressTokens == {Undefined, "tok-1"}

----------------------------------------------------------------------------
(* What one status fetch can produce *)

NoResult == [kind |-> "none"]

\* process.env with the three keys set
AllKeys == [RUNWAYML_API_SECRET |-> "key-r", OPENROUTER_API_KEY |-> "key-o",
            LUMAAI_API_KEY |-> "key-l"]

\* no CallTool request
NoArgs == [provider |-> Undefined, prompt |-> Undefined, promptImage |-> Undefined,
           generation_id |-> Undefined]

NoToolResult == [kind |-> "none", code |-> "none"]

\* no other tool call has started a poll session
NoPeer ==
    [provider |-> "none", expectedAssetType |-> "none", progressToken |-> Undefined,
     taskId |-> Undefined, attempts |-> 0, intervalId |-> "unset", inflight |-> {},
     fetches |-> 0, last |-> [tick |-> 0, result |-> NoResult], emitted |-> <<>>,
     outcome |-> [state |-> "pending", code |-> "none", value |-> <<>>]]

\* error thrown by the fetch: api = instanceof APIError, http = error.status
FetchErrors ==
    { [kind |-> "error", api |-> TRUE, http |-> 404, message |-> "Not Found"],
      [kind |-> "error", api |-> TRUE, http |-> 500, message |-> "Server Error"],
      [kind |-> "error", api |-> FALSE, http |-> 0, message |-> "socket hang up"] }

\* runwayClient.tasks.retrieve(taskId): status and output (a list, or absent)
RunwayOutputs ==
    { [present |-> FALSE, list |-> <<>>],
      [present |-> TRUE, list |-> <<>>],
      [present |-> TRUE, list |-> <<"">>],
      [present |-> TRUE, list |-> <<VideoUrl>>] }

RunwaySnapshots ==
    { [kind |-> "ok", status |-> s, output |-> [present |-> FALSE, list |-> <<>>]] :
        s \in {"PENDING", "RUNNING", "FAILED", "THROTTLED"} }
    \cup { [kind |-> "ok", status |-> "SUCCEEDED", output |-> o] : o \in RunwayOutputs }

\* lumaClient.generations.get(generationId): state, assets, failure_reason
LumaAssets ==
    { [present |-> FALSE, video |-> Undefined, image |-> Undefined] }
    \cup { [present |-> TRUE, video |-> v, image |-> i] :
             v \in {Undefined, Null, "", VideoUrl}, i \in {Undefined, ImageUrl} }

LumaSnapshots ==
    { [kind |-> "ok", state |-> s, assets |-> [present |-> FALSE, video |-> Undefined, image |-> Undefined],
       failure_reason |-> Undefined] : s \in {"queued", "dreaming", "paused"} }
    \cup { [kind |-> "ok", state |-> "failed",
            assets |-> [present |-> FALSE, video |-> Undefined, image |-> Undefined],
            failure_reason |-> f] : f \in {Undefined, "content moderated"} }
    \cup { [kind |-> "ok", state |-> "completed", assets |-> a, failure_reason |-> Undefined] :
             a \in LumaAssets }

FetchResults(p) ==
    IF p = "runwayml" THEN RunwaySnapshots \cup FetchErrors
                      ELSE LumaSnapshots \cup FetchErrors

----------------------------------------------------------------------------
(* Progress messages *)

NoData == [key |-> "none", val |-> <<>>]

\* sendProgress without the token test: the channel is always called
sendProgress_NoTokenTest(ch, p, token, status, data) ==
    Append(ch, [token |-> token, status |-> status,
                nest |-> IF data = NoData THEN "none"
                         ELSE IF p = "runwayml" THEN "data" ELSE "result",
                data |-> data])

\* sendProgress(status, data): a message goes to the channel only with a token.
\* Runway nests the data under 'data', Luma under 'result'.
sendProgress(ch, p, token, status, data) ==
    IF Truthy(token)
    THEN Append(ch, [token |-> token, status |-> status,
                     nest |-> IF data = NoData THEN "none"
                              ELSE IF p = "runwayml" THEN "data" ELSE "result",
                     data |-> data])
    ELSE ch

----------------------------------------------------------------------------
(* The promise *)

Pending == [state |-> "pending", code |-> "none", value |-> <<>>]

\* resolve / reject left out: the promise stays as it is
Settle_Dropped(p, how, code, value) == p

\* resolve / reject of a promise: only the first call has an effect
Settle(p, how, code, value) ==
    IF p.state = "pending" THEN [state |-> how, code |-> code, value |-> value]
    ELSE p

\* clearInterval left out: the handle stays as it was
clearInterval_Kept(id) == id

\* clearInterval(intervalId)
clearInterval(id) == "cleared"

\* the comparison with >= instead of >: the last attempt is never made
AttemptsExhausted_OneEarly(n) == n >= MAX_POLLING_ATTEMPTS

\* the comparison against one more than the limit: one fetch too many
AttemptsExhausted_OneLate(n) == n > MAX_POLLING_ATTEMPTS + 1

\* if (attempts > MAX_POLLING_ATTEMPTS)
AttemptsExhausted(n) == n > MAX_POLLING_ATTEMPTS

----------------------------------------------------------------------------
(* What a tick does with the result of its fetch: the switch and the catch  *)
(* block.  An effect says whether the timer is cleared, what is passed to   *)
(* sendProgress, and how the promise is settled ("none": not at all).       *)

Effect(clear, status, data, how, code, value) ==
    [clear |-> clear, status |-> status, data |-> data,
     how |-> how, code |-> code, value |-> value]

\* an unexpected status taken as a failure of the job
OnUnknownStatus_Fatal(raw) ==
    Effect(TRUE, "FAILED", [key |-> "reason", val |-> <<"Unexpected status ", raw>>],
           "rejected", "InternalError", <<"Unexpected status ", raw>>)

\* default: sendProgress('UNKNOWN_STATUS', { status }), and polling continues
OnUnknownStatus(raw) ==
    Effect(FALSE, "UNKNOWN_STATUS", [key |-> "status", val |-> <<raw>>],
           "none", "none", <<>>)

\* every error of the fetch taken as fatal
IsNotFound_AnyError(r) == r.kind = "error"

\* error instanceof APIError && error.status === 404
IsNotFound(r) == r.kind = "error" /\ r.api /\ r.http = 404

\* taskStatus.output && taskStatus.output.length > 0
RunwayHasOutput(o) == o.present /\ Len(o.list) > 0

\* the switch and the catch block of pollRunwayTask, for the task with the given ID
RunwayEffect(id, r) ==
    IF r.kind = "error" THEN
        IF IsNotFound(r)
        THEN Effect(TRUE, "FAILED",
                    [key |-> "reason", val |-> <<"Task ID ", id, " not found.">>],
                    "rejected", "InvalidRequest",
                    <<"RunwayML task ID ", id, " not found.">>)
        ELSE Effect(FALSE, "POLLING_ERROR",
                    [key |-> "message", val |-> <<r.message>>],
                    "none", "none", <<>>)
    ELSE IF r.status = "SUCCEEDED" THEN
        IF RunwayHasOutput(r.output)
        THEN Effect(TRUE, "SUCCEEDED",
                    [key |-> "videoUrl", val |-> <<r.output.list[1]>>],
                    "resolved", "none", <<r.output.list[1]>>)
        ELSE Effect(TRUE, "FAILED",
                    [key |-> "reason", val |-> <<"Task succeeded but no output URL found.">>],
                    "rejected", "InternalError",
                    <<"RunwayML task ", id, " succeeded but returned no output URL.">>)
    ELSE IF r.status = "FAILED" THEN
        Effect(TRUE, "FAILED",
               [key |-> "reason", val |-> <<"RunwayML task failed (Status: FAILED)">>],
               "rejected", "InternalError",
               <<"RunwayML task failed (Status: FAILED)">>)
    ELSE IF r.status \in {"PENDING", "RUNNING"} THEN
        Effect(FALSE, r.status, NoData, "none", "none", <<>>)
    ELSE
        OnUnknownStatus(r.status)

RunwayOnResult(r) == RunwayEffect(JobId, r)

\* generationStatus.assets?.video / .image, chosen by expectedAssetType
LumaAssetUrl(a, t) ==
    IF t = "video" THEN (IF a.present THEN a.video ELSE Undefined)
    ELSE IF t = "image" THEN (IF a.present THEN a.image ELSE Undefined)
    ELSE IF t = "upscaled_video" THEN (IF a.present THEN a.video ELSE Undefined)
    ELSE Null

\* the key of the video poller used for every kind of result
LumaAssetKey_AlwaysVideoUrl(t) == "videoUrl"

\* assetKey, chosen by expectedAssetType
LumaAssetKey(t) ==
    IF t = "video" THEN "videoUrl"
    ELSE IF t = "image" THEN "imageUrl"
    ELSE IF t = "upscaled_video" THEN "upscaledVideoUrl"
    ELSE "assetUrl"

\* state.toUpperCase() for the two states it is applied to
ToUpperCase(s) == IF s = "queued" THEN "QUEUED" ELSE "DREAMING"

\* the if chain and the catch block of pollLumaTask, for the generation with the given ID
LumaEffect(id, r, t) ==
    IF r.kind = "error" THEN
        IF IsNotFound(r)
        THEN Effect(TRUE, "FAILED",
                    [key |-> "reason", val |-> <<"Generation ID ", id, " not found.">>],
                    "rejected", "InvalidRequest",
                    <<"Luma AI generation ID ", id, " not found.">>)
        ELSE Effect(FALSE, "POLLING_ERROR",
                    [key |-> "message", val |-> <<r.message>>],
                    "none", "none", <<>>)
    ELSE IF r.state = "completed" THEN
        IF Truthy(LumaAssetUrl(r.assets, t))
        THEN Effect(TRUE, "SUCCEEDED",
                    [key |-> LumaAssetKey(t), val |-> <<LumaAssetUrl(r.assets, t)>>],
                    "resolved", "none", <<LumaAssetUrl(r.assets, t)>>)
        ELSE Effect(TRUE, "FAILED",
                    [key |-> "reason", val |-> <<"Task completed but no ", t, " URL found.">>],
                    "rejected", "InternalError",
                    <<"Luma AI task ", id, " ", "Task completed but no ", t, " URL found.">>)
    ELSE IF r.state = "failed" THEN
        LET failureReason == IF Truthy(r.failure_reason) THEN r.failure_reason
                             ELSE "Unknown failure reason"
        IN Effect(TRUE, "FAILED", [key |-> "reason", val |-> <<failureReason>>],
                  "rejected", "InternalError",
                  <<"Luma AI task ", id, " failed: ", failureReason>>)
    ELSE IF r.state \in {"queued", "dreaming"} THEN
        Effect(FALSE, ToUpperCase(r.state), NoData, "none", "none", <<>>)
    ELSE
        OnUnknownStatus(r.state)

LumaOnResult(r, t) == LumaEffect(JobId, r, t)

OnResult(p, r, t) == IF p = "runwayml" THEN RunwayOnResult(r) ELSE LumaOnResult(r, t)

TimeoutMessageOf(id, p) ==
    IF p = "runwayml" THEN <<"Polling timed out for RunwayML task ", id>>
                      ELSE <<"Polling timed out for Luma AI task ", id>>

TimeoutMessage(p) == TimeoutMessageOf(JobId, p)

----------------------------------------------------------------------------
(* The state machine *)

\* the poller has been called: the timer is armed, nothing has happened yet
Init ==
    /\ provider \in Providers
    /\ expectedAssetType \in (IF provider = "runwayml" THEN {"video"} ELSE ExpectedAssetTypes)
    /\ progressToken \in ProgressTokens
    /\ attempts = 0
    /\ intervalId = "armed"
    /\ inflight = {}
    /\ fetches = 0
    /\ last = [tick |-> 0, result |-> NoResult]
    /\ emitted = <<>>
    /\ channel = <<>>
    /\ outcome = Pending
    /\ taskId = NewJobId
    /\ env = AllKeys
    /\ tool = "none"
    /\ args = NoArgs
    /\ pc = "polling"
    /\ created = <<>>
    /\ createResp = NoResult
    /\ toolResult = NoToolResult
    /\ thenDone = FALSE
    /\ peer = NoPeer

\* the timeout tick without its sendProgress('TIMEOUT') call
TickTimeout_Silent ==
    /\ intervalId = "armed"
    /\ AttemptsExhausted(attempts + 1)
    /\ attempts' = attempts + 1
    /\ intervalId' = clearInterval(intervalId)
    /\ outcome' = Settle(outcome, "rejected", "InternalError", TimeoutMessage(provider))
    /\ UNCHANGED <<provider, expectedAssetType, progressToken, inflight, fetches, last,
                   emitted, channel, taskId>>
    /\ UNCHANGED toolVars

\* a timer tick that finds the attempts used up: clear, TIMEOUT, reject
TickTimeout ==
    /\ intervalId = "armed"
    /\ AttemptsExhausted(attempts + 1)
    /\ attempts' = attempts + 1
    /\ intervalId' = clearInterval(intervalId)
    /\ emitted' = Append(emitted, [status |-> "TIMEOUT", data |-> NoData, tick |-> attempts + 1])
    /\ channel' = sendProgress(channel, provider, progressToken, "TIMEOUT", NoData)
    /\ outcome' = Settle(outcome, "rejected", "InternalError", TimeoutMessage(provider))
    /\ UNCHANGED <<provider, expectedAssetType, progressToken, inflight, fetches, last, taskId>>
    /\ UNCHANGED toolVars

\* a timer tick that issues the status fetch and suspends at the await
TickFetch ==
    /\ intervalId = "armed"
    /\ ~AttemptsExhausted(attempts + 1)
    /\ attempts' = attempts + 1
    /\ inflight' = inflight \cup {attempts + 1}
    /\ fetches' = fetches + 1
    /\ UNCHANGED <<provider, expectedAssetType, progressToken, intervalId, last,
                   emitted, channel, outcome, taskId>>
    /\ UNCHANGED toolVars

\* the fetch of tick k returns r (a snapshot or an error): the rest of the callback
FetchReturn(k, r) ==
    LET e == OnResult(provider, r, expectedAssetType) IN
    /\ k \in inflight
    /\ inflight' = inflight \ {k}
    /\ last' = [tick |-> k, result |-> r]
    /\ intervalId' = IF e.clear THEN clearInterval(intervalId) ELSE intervalId
    /\ emitted' = Append(emitted, [status |-> e.status, data |-> e.data, tick |-> k])
    /\ channel' = sendProgress(channel, provider, progressToken, e.status, e.data)
    /\ outcome' = IF e.how = "none" THEN outcome
                  ELSE Settle(outcome, e.how, e.code, e.value)
    /\ UNCHANGED <<provider, expectedAssetType, progressToken, attempts, fetches, taskId>>
    /\ UNCHANGED toolVars

Return == \E k \in inflight : \E r \in FetchResults(provider) : FetchReturn(k, r)

Next == TickTimeout \/ TickFetch \/ Return

Spec == Init /\ [][Next]_vars

\* the timer fires as long as it is armed
FairSpec == Spec /\ WF_vars(TickTimeout \/ TickFetch)

----------------------------------------------------------------------------
(* A notification channel that may throw.  sendProgress has no try/catch   *)
(* of its own, so an exception of mcpExchange.sendProgress leaves the      *)
(* callback where it is raised: on the timeout path it ends the callback   *)
(* before reject; inside the try block it enters the catch block, which    *)
(* (the exception not being an APIError 404) calls                         *)
(* sendProgress('POLLING_ERROR') in turn; inside the catch block it ends   *)
(* the callback.  The call is recorded in emitted, nothing reaches channel. *)

\* error.message of the exception the channel throws
ChannelErrorMessage == "channel closed"

\* the timeout tick with reject called before sendProgress('TIMEOUT'), which throws
TickTimeoutThrows_RejectFirst ==
    /\ intervalId = "armed"
    /\ AttemptsExhausted(attempts + 1)
    /\ Truthy(progressToken)
    /\ attempts' = attempts + 1
    /\ intervalId' = clearInterval(intervalId)
    /\ outcome' = Settle(outcome, "rejected", "InternalError", TimeoutMessage(provider))
    /\ emitted' = Append(emitted, [status |-> "TIMEOUT", data |-> NoData, tick |-> attempts + 1])
    /\ UNCHANGED <<provider, expectedAssetType, progressToken, inflight, fetches, last,
                   channel, taskId>>
    /\ UNCHANGED toolVars

\* the timeout tick when sendProgress('TIMEOUT') throws: reject is not reached
TickTimeoutThrows ==
    /\ intervalId = "armed"
    /\ AttemptsExhausted(attempts + 1)
    /\ Truthy(progressToken)
    /\ attempts' = attempts + 1
    /\ intervalId' = clearInterval(intervalId)
    /\ emitted' = Append(emitted, [status |-> "TIMEOUT", data |-> NoData, tick |-> attempts + 1])
    /\ UNCHANGED <<provider, expectedAssetType, progressToken, inflight, fetches, last,
                   channel, outcome, taskId>>
    /\ UNCHANGED toolVars

\* the fetch of tick k returns r and the sendProgress call made for it throws;
\* again: the sendProgress('POLLING_ERROR') call of the catch block throws too
FetchReturnThrows(k, r, again) ==
    LET e == OnResult(provider, r, expectedAssetType)
        first == [status |-> e.status, data |-> e.data, tick |-> k]
        retryData == [key |-> "message", val |-> <<ChannelErrorMessage>>]
        retry == [status |-> "POLLING_ERROR", data |-> retryData, tick |-> k]
    IN
    /\ k \in inflight
    /\ Truthy(progressToken)
    /\ r.kind = "error" => again
    /\ inflight' = inflight \ {k}
    /\ last' = [tick |-> k, result |-> r]
    /\ intervalId' = IF e.clear THEN clearInterval(intervalId) ELSE intervalId
    /\ emitted' = IF r.kind = "error" THEN Append(emitted, first)
                  ELSE Append(Append(emitted, first), retry)
    /\ channel' = IF again THEN channel
                  ELSE sendProgress(channel, provider, progressToken, "POLLING_ERROR", retryData)
    /\ UNCHANGED <<provider, expectedAssetType, progressToken, attempts, fetches, outcome, taskId>>
    /\ UNCHANGED toolVars

ReturnThrows ==
    \E k \in inflight : \E r \in FetchResults(provider) : \E again \in BOOLEAN :
        FetchReturnThrows(k, r, again)

ThrowNext == Next \/ TickTimeoutThrows \/ ReturnThrows

ThrowSpec == Init /\ [][ThrowNext]_vars

\* the timer fires as long as it is armed, whether or not the channel throws
FairThrowSpec == ThrowSpec /\ WF_vars(TickTimeout \/ TickFetch \/ TickTimeoutThrows)

----------------------------------------------------------------------------
(* The server and the job-initiating tools.  A tool call validates its     *)
(* arguments, reads its API key, asks the provider to create the job and   *)
(* suspends at the await; when the create call returns it takes the job    *)
(* ID, starts the poller (which arms the timer and returns its promise),   *)
(* sends INITIATED and returns, all in one synchronous stretch.  The       *)
(* exchange handed to the tools is taken to offer sendProgress.            *)

JobTools == {"generate_text_to_video", "generate_image_to_video",
             "luma_generate_image", "luma_upscale"}

PromptText == "a cat"
PromptImageUrl == "https://x/in.png"
GenerationUuid == "123e4567-e89b-12d3-a456-426614174000"

\* the arguments a request can carry; a field the tool does not read is absent
ToolArgs(t) ==
    IF t = "generate_text_to_video" THEN
        { [provider |-> p, prompt |-> q, promptImage |-> Undefined, generation_id |-> Undefined] :
            p \in {Undefined, "runwayml", "lumaai", "pika"}, q \in {Undefined, "", PromptText} }
    ELSE IF t = "generate_image_to_video" THEN
        { [provider |-> p, prompt |-> Undefined, promptImage |-> i, generation_id |-> Undefined] :
            p \in {Undefined, "runwayml", "lumaai", "pika"}, i \in {Undefined, PromptImageUrl} }
    ELSE IF t = "luma_generate_image" THEN
        { [provider |-> Undefined, prompt |-> q, promptImage |-> Undefined, generation_id |-> Undefined] :
            q \in {Undefined, "", PromptText} }
    ELSE
        { [provider |-> Undefined, prompt |-> Undefined, promptImage |-> Undefined, generation_id |-> g] :
            g \in {Undefined, "not-a-uuid", GenerationUuid} }

Envs ==
    [RUNWAYML_API_SECRET : {Undefined, "key-r"}, OPENROUTER_API_KEY : {Undefined, "key-o"},
     LUMAAI_API_KEY : {Undefined, "key-l"}]

\* what the provider's create call can return: an object with or without an
\* id, or an error
CreateResponses ==
    { [kind |-> "ok", id |-> i] : i \in {Undefined, "", NewJobId} }
    \cup { [kind |-> "error", api |-> TRUE, http |-> h, message |-> "api error"] :
             h \in {401, 400, 404, 500} }
    \cup { [kind |-> "error", api |-> FALSE, http |-> 0, message |-> "socket hang up"] }

\* a schema that lets every request through
Validate_Lenient(t, a) ==
    [ok |-> TRUE,
     provider |-> IF t \in {"luma_generate_image", "luma_upscale"} THEN "lumaai"
                  ELSE IF a.provider = Undefined THEN "runwayml" ELSE a.provider]

\* schema.parse(args): whether it passes, and the provider after the default
Validate(t, a) ==
    IF t = "generate_text_to_video" THEN
        [ok |-> a.provider \in {Undefined, "runwayml", "lumaai"} /\ Truthy(a.prompt),
         provider |-> IF a.provider = Undefined THEN "runwayml" ELSE a.provider]
    ELSE IF t = "generate_image_to_video" THEN
        [ok |-> a.provider \in {Undefined, "runwayml", "lumaai"} /\ a.promptImage = PromptImageUrl,
         provider |-> IF a.provider = Undefined THEN "runwayml" ELSE a.provider]
    ELSE IF t = "luma_generate_image" THEN
        [ok |-> Truthy(a.prompt), provider |-> "lumaai"]
    ELSE
        [ok |-> a.generation_id = GenerationUuid, provider |-> "lumaai"]

\* the catch block returns a result instead of rethrowing
ToolError_Swallowed(code) == [kind |-> "ok", code |-> "none"]

\* throw new McpError(ErrorCode.<code>, ...)
ToolError(code) == [kind |-> "error", code |-> code]

\* the tool awaits the poller: it has no result when the session starts
InitiatedResult_Awaited == NoToolResult

\* return { content: [{ type: 'text', text: '... task initiated with ID ...' }] }
InitiatedResult == [kind |-> "ok", code |-> "none"]

\* the branch of generate_text_to_video that exists for the provider
TextToVideoBranch(p) == p = "lumaai"

\* process.env key read by the branch of provider p
RequiredKey(p) == IF p = "runwayml" THEN "RUNWAYML_API_SECRET" ELSE "LUMAAI_API_KEY"

\* the create call a tool makes
CreateOp(t, p) ==
    IF t = "luma_generate_image" THEN "generations.image.create"
    ELSE IF t = "luma_upscale" THEN "generations.upscale"
    ELSE IF p = "runwayml" THEN "imageToVideo.create"
    ELSE "generations.create"

\* the error code mapping of the catch block, for an error of the create call
CatchCode(t, err) ==
    IF ~err.api THEN "InternalError"
    ELSE IF t = "luma_upscale"
         THEN (IF err.http = 404 THEN "InvalidRequest" ELSE "InternalError")
    ELSE IF err.http \in {401, 403} THEN "InvalidRequest"
    ELSE IF err.http \in {400, 422} THEN "InvalidParams"
    ELSE "InternalError"

\* the ID the tool takes from the create response
PolledId(t, p, resp, a) ==
    IF t = "generate_image_to_video" /\ p = "runwayml" THEN resp.id
    ELSE IF t = "luma_upscale"
         THEN (IF Truthy(resp.id) THEN resp.id ELSE a.generation_id)
    ELSE (IF Truthy(resp.id) THEN resp.id ELSE "")

\* if (!taskId) throw ...: the Runway branch of image-to-video has no such test
IdIsChecked(t, p) == ~(t = "generate_image_to_video" /\ p = "runwayml")

\* the expectedAssetType the tool passes to pollLumaTask (omitted: 'video')
AssetTypeOf(t) == IF t = "luma_upscale" THEN "upscaled_video" ELSE "video"

\* the tool does not announce the job
Initiated_Unsent(ch, token, id, p) == ch

\* exchange.sendProgress?.({ token, value: { status: 'INITIATED', taskId, provider } })
Initiated(ch, token, id, p) ==
    Append(ch, [token |-> token, status |-> "INITIATED", nest |-> "flat",
                data |-> [key |-> "taskId", val |-> <<id, p>>]])

\* the server process has started; a CallTool request for a job tool will arrive
ToolInit ==
    /\ env \in Envs
    /\ tool \in JobTools
    /\ args \in ToolArgs(tool)
    /\ progressToken \in ProgressTokens
    /\ pc = "start"
    /\ created = <<>>
    /\ createResp = NoResult
    /\ toolResult = NoToolResult
    /\ thenDone = FALSE
    /\ peer = NoPeer
    /\ provider = "none"
    /\ expectedAssetType = "none"
    /\ taskId = Undefined
    /\ attempts = 0
    /\ intervalId = "unset"
    /\ inflight = {}
    /\ fetches = 0
    /\ last = [tick |-> 0, result |-> NoResult]
    /\ emitted = <<>>
    /\ channel = <<>>
    /\ outcome = Pending

\* a startup check that looks at the RunwayML key only
KeysPresent_RunwayOnly(e) == Truthy(e.RUNWAYML_API_SECRET)

\* the three if (!process.env.X) throw ... of run()
KeysPresent(e) ==
    /\ Truthy(e.RUNWAYML_API_SECRET)
    /\ Truthy(e.OPENROUTER_API_KEY)
    /\ Truthy(e.LUMAAI_API_KEY)

\* run(): the three keys are required before the transport is connected
ServerRun ==
    /\ pc = "start"
    /\ pc' = IF KeysPresent(env) THEN "connected" ELSE "exited"
    /\ UNCHANGED <<env, tool, args, created, createResp, toolResult, thenDone, peer>>
    /\ UNCHANGED pollVars

\* the CallTool request is dispatched: the tool runs up to its create call
ToolCall ==
    LET v == Validate(tool, args) IN
    /\ pc = "connected"
    /\ IF ~v.ok THEN
           /\ toolResult' = ToolError("InvalidParams")
           /\ pc' = "done"
           /\ created' = created
       ELSE IF tool = "generate_text_to_video" /\ ~TextToVideoBranch(v.provider) THEN
           \* 'Invalid provider' is thrown inside the try and rethrown by the
           \* general fallback of the catch block
           /\ toolResult' = ToolError("InternalError")
           /\ pc' = "done"
           /\ created' = created
       ELSE IF ~Truthy(env[RequiredKey(v.provider)]) THEN
           /\ toolResult' = ToolError("InternalError")
           /\ pc' = "done"
           /\ created' = created
       ELSE
           /\ created' = Append(created, [provider |-> v.provider,
                                          op |-> CreateOp(tool, v.provider)])
           /\ pc' = "creating"
           /\ toolResult' = toolResult
    /\ UNCHANGED <<env, tool, args, createResp, thenDone, peer>>
    /\ UNCHANGED pollVars

\* the create call returns resp: the rest of the tool
CreateReturns(resp) ==
    LET p == Validate(tool, args).provider
        id == PolledId(tool, p, resp, args)
    IN
    /\ pc = "creating"
    /\ pc' = "done"
    /\ createResp' = resp
    /\ IF resp.kind = "error" THEN
           /\ toolResult' = ToolError(CatchCode(tool, resp))
           /\ UNCHANGED pollVars
       ELSE IF IdIsChecked(tool, p) /\ ~Truthy(id) THEN
           /\ toolResult' = ToolError("InternalError")
           /\ UNCHANGED pollVars
       ELSE
           /\ provider' = p
           /\ expectedAssetType' = AssetTypeOf(tool)
           /\ taskId' = id
           /\ intervalId' = "armed"
           /\ channel' = Initiated(channel, progressToken, id, p)
           /\ toolResult' = InitiatedResult
           /\ UNCHANGED <<progressToken, attempts, inflight, fetches, last, emitted, outcome>>
    /\ UNCHANGED <<env, tool, args, created, thenDone, peer>>

CreateReturn == \E resp \in CreateResponses : CreateReturns(resp)

\* luma_generate_image: the .then callback of the poller's promise
ThenHandler ==
    /\ tool = "luma_generate_image"
    /\ outcome.state = "resolved"
    /\ ~thenDone
    /\ thenDone' = TRUE
    /\ channel' = Append(channel, [token |-> progressToken, status |-> "SUCCEEDED",
                                   nest |-> "flat",
                                   data |-> [key |-> "imageUrl", val |-> outcome.value]])
    /\ UNCHANGED <<env, tool, args, pc, created, createResp, toolResult, peer>>
    /\ UNCHANGED <<provider, expectedAssetType, progressToken, attempts, intervalId,
                   inflight, fetches, last, emitted, outcome, taskId>>

ToolNext == ServerRun \/ ToolCall \/ CreateReturn \/ ThenHandler \/ Next

ToolSpec == ToolInit /\ [][ToolNext]_vars

----------------------------------------------------------------------------
(* Two poll sessions at once.  The pollers keep attempts, intervalId and   *)
(* the promise in the closure of each call; nothing is kept at module      *)
(* level and no tool looks up the sessions already running.  The first     *)
(* session is the one of an earlier luma_upscale call whose response had   *)
(* no id, so that it polls the generation ID of the request; a second      *)
(* luma_upscale call for the same generation is awaiting its response and  *)
(* starts the session held in peer.  Both sessions notify through the same *)
(* channel.                                                                 *)

OtherJobId == "job-2"
PeerToken == "tok-2"

\* the create responses of the second call
PeerResponses ==
    { [kind |-> "ok", id |-> i] : i \in {Undefined, OtherJobId} }
    \cup { [kind |-> "error", api |-> TRUE, http |-> 500, message |-> "api error"] }

\* the fetch results tried with two sessions: still working, and success
TwoResults ==
    { [kind |-> "ok", state |-> "dreaming",
       assets |-> [present |-> FALSE, video |-> Undefined, image |-> Undefined],
       failure_reason |-> Undefined],
      [kind |-> "ok", state |-> "completed",
       assets |-> [present |-> TRUE, video |-> VideoUrl, image |-> Undefined],
       failure_reason |-> Undefined] }

\* the switch / if chain of the poller that runs the peer session
PeerOnResult(r) ==
    IF peer.provider = "runwayml" THEN RunwayEffect(peer.taskId, r)
    ELSE LumaEffect(peer.taskId, r, peer.expectedAssetType)

TwoInit ==
    /\ provider = "lumaai"
    /\ expectedAssetType = "upscaled_video"
    /\ progressToken = "tok-1"
    /\ taskId = GenerationUuid
    /\ attempts = 0
    /\ intervalId = "armed"
    /\ inflight = {}
    /\ fetches = 0
    /\ last = [tick |-> 0, result |-> NoResult]
    /\ emitted = <<>>
    /\ channel = Initiated(<<>>, progressToken, taskId, provider)
    /\ outcome = Pending
    /\ env = AllKeys
    /\ tool = "luma_upscale"
    /\ args = [provider |-> Undefined, prompt |-> Undefined, promptImage |-> Undefined,
               generation_id |-> GenerationUuid]
    /\ pc = "creating"
    /\ created = <<[provider |-> "lumaai", op |-> CreateOp("luma_upscale", "lumaai")],
                   [provider |-> Validate(tool, args).provider,
                    op |-> CreateOp(tool, Validate(tool, args).provider)]>>
    /\ createResp = NoResult
    /\ toolResult = NoToolResult
    /\ thenDone = FALSE
    /\ peer = NoPeer

\* the create call of the second tool call returns resp: the tool starts its
\* poller without asking whether a session for that ID is running
PeerStarts(resp) ==
    LET p == Validate(tool, args).provider
        id == PolledId(tool, p, resp, args)
    IN
    /\ pc = "creating"
    /\ pc' = "done"
    /\ createResp' = resp
    /\ IF resp.kind = "error" THEN
           /\ toolResult' = ToolError(CatchCode(tool, resp))
           /\ UNCHANGED <<peer, channel>>
       ELSE IF IdIsChecked(tool, p) /\ ~Truthy(id) THEN
           /\ toolResult' = ToolError("InternalError")
           /\ UNCHANGED <<peer, channel>>
       ELSE
           /\ peer' = [peer EXCEPT !.provider = p,
                                   !.expectedAssetType = AssetTypeOf(tool),
                                   !.progressToken = PeerToken,
                                   !.taskId = id,
                                   !.intervalId = "armed"]
           /\ channel' = Initiated(channel, PeerToken, id, p)
           /\ toolResult' = InitiatedResult
    /\ UNCHANGED <<env, tool, args, created, thenDone>>
    /\ UNCHANGED <<provider, expectedAssetType, progressToken, attempts, intervalId,
                   inflight, fetches, last, emitted, outcome, taskId>>

PeerStart == \E resp \in PeerResponses : PeerStarts(resp)

\* everything but the peer session and the channel
PeerFrame ==
    /\ UNCHANGED <<env, tool, args, pc, created, createResp, toolResult, thenDone>>
    /\ UNCHANGED <<provider, expectedAssetType, progressToken, attempts, intervalId,
                   inflight, fetches, last, emitted, outcome, taskId>>

\* a module-level attempts counter, shared by the sessions
PeerTickFetch_SharedCounter ==
    /\ peer.intervalId = "armed"
    /\ ~AttemptsExhausted(attempts + 1)
    /\ peer' = [peer EXCEPT !.attempts = attempts + 1,
                            !.inflight = @ \cup {attempts + 1},
                            !.fetches = @ + 1]
    /\ attempts' = attempts + 1
    /\ UNCHANGED <<env, tool, args, pc, created, createResp, toolResult, thenDone>>
    /\ UNCHANGED <<provider, expectedAssetType, progressToken, intervalId,
                   inflight, fetches, last, emitted, outcome, taskId, channel>>

\* a timer tick of the peer session that issues the status fetch
PeerTickFetch ==
    /\ peer.intervalId = "armed"
    /\ ~AttemptsExhausted(peer.attempts + 1)
    /\ peer' = [peer EXCEPT !.attempts = @ + 1,
                            !.inflight = @ \cup {peer.attempts + 1},
                            !.fetches = @ + 1]
    /\ channel' = channel
    /\ PeerFrame

\* a timer tick of the peer session that finds the attempts used up
PeerTickTimeout ==
    /\ peer.intervalId = "armed"
    /\ AttemptsExhausted(peer.attempts + 1)
    /\ peer' = [peer EXCEPT
                  !.attempts = @ + 1,
                  !.intervalId = clearInterval(@),
                  !.emitted = Append(@, [status |-> "TIMEOUT", data |-> NoData,
                                         tick |-> peer.attempts + 1]),
                  !.outcome = Settle(@, "rejected", "InternalError",
                                     TimeoutMessageOf(peer.taskId, peer.provider))]
    /\ channel' = sendProgress(channel, peer.provider, peer.progressToken, "TIMEOUT", NoData)
    /\ PeerFrame

\* the fetch of tick k of the peer session returns r
PeerFetchReturn(k, r) ==
    LET e == PeerOnResult(r) IN
    /\ k \in peer.inflight
    /\ peer' = [peer EXCEPT
                  !.inflight = @ \ {k},
                  !.last = [tick |-> k, result |-> r],
                  !.intervalId = IF e.clear THEN clearInterval(@) ELSE @,
                  !.emitted = Append(@, [status |-> e.status, data |-> e.data, tick |-> k]),
                  !.outcome = IF e.how = "none" THEN @ ELSE Settle(@, e.how, e.code, e.value)]
    /\ channel' = sendProgress(channel, peer.provider, peer.progressToken, e.status, e.data)
    /\ PeerFrame

PeerReturn ==
    \E k \in peer.inflight : \E r \in TwoResults : PeerFetchReturn(k, r)

\* a fetch of the first session returns one of the results tried with two sessions
TwoReturn == \E k \in inflight : \E r \in TwoResults : FetchReturn(k, r)

TwoNext ==
    \/ TickTimeout \/ TickFetch \/ TwoReturn
    \/ PeerStart \/ PeerTickTimeout \/ PeerTickFetch \/ PeerReturn

TwoSpec == TwoInit /\ [][TwoNext]_vars

\* the second call is given an ID of its own: two sessions for different jobs
TwoJobsStart ==
    \E resp \in {r \in PeerResponses : r.kind = "ok" /\ Truthy(r.id)} : PeerStarts(resp)

TwoJobsNext ==
    \/ TickTimeout \/ TickFetch \/ TwoReturn
    \/ TwoJobsStart \/ PeerTickTimeout \/ PeerTickFetch \/ PeerReturn

TwoJobsSpec == TwoInit /\ [][TwoJobsNext]_vars

----------------------------------------------------------------------------
(* Vocabulary of the properties *)

TerminalStatuses == {"SUCCEEDED", "FAILED", "TIMEOUT"}

\* a terminal classification has been processed: a terminal sendProgress call was made
HasTerminal(log) == \E i \in 1..Len(log) : log[i].status \in TerminalStatuses

\* a terminal status or a not-found error of the fetch has been processed
HasStatusTerminal(log) == \E i \in 1..Len(log) : log[i].status \in {"SUCCEEDED", "FAILED"}

Count(log, s) == Cardinality({i \in 1..Len(log) : log[i].status = s})

FirstTerminal(log) ==
    log[CHOOSE i \in 1..Len(log) :
          /\ log[i].status \in TerminalStatuses
          /\ \A j \in 1..(i - 1) : log[j].status \notin TerminalStatuses]

IsTimedOut(o) == o.state = "rejected" /\ o.value = TimeoutMessage(provider)

\* this step is the completion of a fetch
IsReturnStep == last'.tick \in inflight /\ inflight' = inflight \ {last'.tick}

----------------------------------------------------------------------------
C2_OnlyFirstTerminalActedUpon ==
    [][ HasStatusTerminal(emitted) => (channel' = channel /\ outcome' = outcome) ]_vars

IsTerminalStatus(r) ==
    /\ r.kind = "ok"
    /\ IF provider = "runwayml" THEN r.status \in {"SUCCEEDED", "FAILED"}
                                ELSE r.state \in {"completed", "failed"}

\* the result is a transient error of the fetch: an error that is not a 404
IsTransientError(r) == r.kind = "error" /\ ~(r.api /\ r.http = 404)

\* the result is a success status whose asset is absent or empty
IsEmptyAssetSuccess(r) ==
    /\ r.kind = "ok"
    /\ IF provider = "runwayml"
       THEN /\ r.status = "SUCCEEDED"
            /\ \/ ~r.output.present
               \/ r.output.list = <<>>
               \/ r.output.list[1] = ""
       ELSE /\ r.state = "completed"
            /\ \/ ~r.assets.present
               \/ (IF expectedAssetType = "image" THEN r.assets.image ELSE r.assets.video)
                      \in {Undefined, Null, ""}

(* C5: when the fetch issued on the last allowed attempt returned a        *)
(* terminal status, the outcome of the session is not TIMED_OUT.           *)
C5_LastAttemptTerminalWins ==
    (last.tick = MAX_POLLING_ATTEMPTS /\ IsTerminalStatus(last.result)) =>
        ~IsTimedOut(outcome)

(* C6: after a not-found error of the fetch of attempt k was processed,    *)
(* the timer is cleared, the last event is FAILED with a 'not found'       *)
(* reason naming the job ID, the promise is rejected, and exactly k        *)
(* fetches have been issued.                                                *)
C6_NotFoundTerminates ==
    (last.result.kind = "error" /\ last.result.api /\ last.result.http = 404) =>
        /\ intervalId = "cleared"
        /\ emitted[Len(emitted)].status = "FAILED"
        /\ emitted[Len(emitted)].data.key = "reason"
        /\ emitted[Len(emitted)].data.val[2] = JobId
        /\ emitted[Len(emitted)].data.val[3] = " not found."
        /\ outcome.state = "rejected"
        /\ fetches = last.tick

(* C7: processing a transient (non-404) error of the fetch emits           *)
(* POLLING_ERROR with the error's message and changes neither the timer    *)
(* nor the promise; a session that has seen nothing but transient errors   *)
(* has its timer armed and its promise pending as long as it has attempts  *)
(* left, and its next tick (attempt k+1) issues a fetch.                   *)
C7_TransientErrorContinues ==
    /\ [][ (IsReturnStep /\ IsTransientError(last'.result)) =>
             /\ emitted' = Append(emitted,
                    [status |-> "POLLING_ERROR",
                     data |-> [key |-> "message", val |-> <<last'.result.message>>],
                     tick |-> last'.tick])
             /\ Truthy(progressToken) =>
                    /\ Len(channel') = Len(channel) + 1
                    /\ channel'[Len(channel')].status = "POLLING_ERROR"
                    /\ channel'[Len(channel')].data.val = <<last'.result.message>>
             /\ intervalId' = intervalId
             /\ outcome' = outcome
             /\ attempts' = attempts
         ]_vars
    /\ []( (attempts <= MAX_POLLING_ATTEMPTS
              /\ \A i \in 1..Len(emitted) : emitted[i].status = "POLLING_ERROR") =>
             /\ intervalId = "armed"
             /\ outcome = Pending
             /\ attempts < MAX_POLLING_ATTEMPTS => ENABLED TickFetch )

\* attempt 1 failed with a transient error and attempt 2 was made nevertheless
C7_Witness ==
    /\ Len(emitted) >= 1
    /\ emitted[1].status = "POLLING_ERROR"
    /\ emitted[1].tick = 1
    /\ inflight = {2}
    /\ outcome = Pending
    /\ intervalId = "armed"

(* C8: after a success status with an absent or empty asset was processed, *)
(* the event emitted for it is FAILED, not SUCCEEDED, and the promise is   *)
(* not resolved with an empty URL.                                          *)
C8_EmptyAssetFails ==
    IsEmptyAssetSuccess(last.result) =>
        /\ emitted[Len(emitted)].status = "FAILED"
        /\ ~(outcome.state = "resolved" /\ outcome.value[1] \in {Undefined, Null, ""})

(* C9: in a session started without a progress token nothing is ever sent  *)
(* on the notification channel, whatever the fetches return; the promise   *)
(* is settled all the same, by the first terminal classification: pending  *)
(* until then, resolved with the asset URL on success, rejected with the   *)
(* timeout error on timeout, rejected with another error otherwise.        *)
C9_NoTokenNoNotification ==
    ~Truthy(progressToken) =>
        /\ channel = <<>>
        /\ outcome.state = "pending" <=> ~HasTerminal(emitted)
        /\ HasTerminal(emitted) =>
             LET f == FirstTerminal(emitted) IN
             /\ f.status = "SUCCEEDED" =>
                    outcome = [state |-> "resolved", code |-> "none", value |-> f.data.val]
             /\ f.status = "TIMEOUT" => IsTimedOut(outcome)
             /\ f.status = "FAILED" => (outcome.state = "rejected" /\ ~IsTimedOut(outcome))

\* a token-less session that saw a non-terminal result and then a success
C9_Witness ==
    /\ ~Truthy(progressToken)
    /\ Len(emitted) >= 2
    /\ emitted[1].status \notin TerminalStatuses
    /\ emitted[2].status = "SUCCEEDED"
    /\ outcome.state = "resolved"
    /\ channel = <<>>

(* C10: within one session at most one status fetch is awaited at a time.  *)
C10_NoOverlappingFetches == Cardinality(inflight) <= 1

(* C11: an exception of the notification channel does not abort the tick:  *)
(* a terminal tick still settles the promise, so no session has its timer  *)
(* cleared while its promise is pending.                                    *)
C11_DeliveryExceptionDoesNotAbort ==
    intervalId = "cleared" => outcome.state # "pending"

(* C12: every session started with a progress token eventually makes a    *)
(* terminal notification (SUCCEEDED, FAILED or TIMEOUT), whatever the      *)
(* fetches return and however many of them fail, as long as the timer      *)
(* keeps firing; the notification reaches the channel unless a delivery    *)
(* has thrown.                                                              *)
C12_EventuallyTerminalNotification ==
    Truthy(progressToken) =>
        <>( /\ HasTerminal(emitted)
            /\ Len(channel) = Len(emitted) => HasTerminal(channel) )

\* a session with a token saw a transient error on every allowed attempt and
\* then timed out, and the TIMEOUT notification is on the channel
C12_Witness ==
    /\ Truthy(progressToken)
    /\ Count(emitted, "POLLING_ERROR") = MAX_POLLING_ATTEMPTS
    /\ Len(channel) = MAX_POLLING_ATTEMPTS + 1
    /\ channel[Len(channel)].status = "TIMEOUT"

\* the status of a "still working" event
WorkingStatuses == {"PENDING", "RUNNING", "QUEUED", "DREAMING"}

(* C18: the attempt counter never decreases; once the session is terminal  *)
(* (its promise is settled) or the counter has gone past                   *)
(* MAX_POLLING_ATTEMPTS, polling has stopped for good: the timer is        *)
(* cleared and stays cleared, no tick is enabled, and no step changes the  *)
(* counter or issues a fetch.                                               *)
C18_CounterMonotonePollingStops ==
    [][ /\ attempts' >= attempts
        /\ fetches' >= fetches
        /\ intervalId = "cleared" => intervalId' = "cleared"
        /\ (outcome.state # "pending" \/ attempts > MAX_POLLING_ATTEMPTS) =>
             /\ intervalId = "cleared"
             /\ ~ENABLED TickFetch
             /\ ~ENABLED TickTimeout
             /\ attempts' = attempts
             /\ fetches' = fetches
             /\ inflight' \subseteq inflight
      ]_vars

\* a session that became terminal on its first attempt, with attempts left,
\* and whose later fetch results have all come back
C18_Witness ==
    /\ attempts < MAX_POLLING_ATTEMPTS
    /\ outcome.state = "rejected"
    /\ intervalId = "cleared"
    /\ inflight = {}
    /\ fetches = attempts

(* C19: when the last event is SUCCEEDED and every event before it is a    *)
(* "still working" event, i.e. the first terminal status is a success      *)
(* with a non-empty asset returned by the k-th fetch, then exactly k       *)
(* fetches were issued, the earlier events are those of fetches 1..k-1 in  *)
(* order, and the promise is resolved with the URL of the event.           *)
C19_SuccessAtKthFetch ==
    LET n == Len(emitted) IN
    (/\ n >= 1
     /\ emitted[n].status = "SUCCEEDED"
     /\ \A i \in 1..(n - 1) : emitted[i].status \in WorkingStatuses) =>
        /\ fetches = emitted[n].tick
        /\ n = emitted[n].tick
        /\ \A i \in 1..(n - 1) : emitted[i].tick = i
        /\ outcome = [state |-> "resolved", code |-> "none", value |-> emitted[n].data.val]

(* C13: a job-initiating tool returns its success result in the step that  *)
(* starts the poll session: whenever a session exists the call has already *)
(* returned success, and a call returns success only with a session        *)
(* started; at the moment of the return no tick has run, no status fetch   *)
(* was issued and the outcome is pending; and once the call has returned   *)
(* success its result never changes, whatever the session does.            *)
C13_ReturnsAtSessionStart ==
    /\ [](intervalId # "unset" => (pc = "done" /\ toolResult.kind = "ok"))
    /\ [](toolResult.kind = "ok" => intervalId # "unset")
    /\ [][ /\ toolResult.kind = "ok" => toolResult' = toolResult
           /\ (toolResult.kind # "ok" /\ toolResult'.kind = "ok") =>
                /\ intervalId = "unset" /\ intervalId' = "armed"
                /\ attempts' = 0
                /\ fetches' = 0
                /\ outcome' = Pending
         ]_vars

\* a luma_upscale call returned success and its session has timed out since
C13_Witness ==
    /\ tool = "luma_upscale"
    /\ toolResult.kind = "ok"
    /\ IsTimedOut(outcome)
    /\ Count(emitted, "TIMEOUT") = 1

(* C14: a generate_text_to_video call with a non-empty promptText and the  *)
(* provider 'runwayml' (given or by default) or 'lumaai' creates a job     *)
(* with that provider: when such a call ends in an error, the error comes  *)
(* from the create call made on the provider; otherwise a session is       *)
(* started and the call returns the 'task initiated' result.               *)
C14_TextToVideoBothProviders ==
    (/\ tool = "generate_text_to_video"
     /\ Truthy(args.prompt)
     /\ args.provider \in {Undefined, "runwayml", "lumaai"}
     /\ pc = "done") =>
        /\ Len(created) = 1
        /\ created[1].provider = Validate(tool, args).provider
        /\ toolResult.kind = "ok" <=> (createResp.kind = "ok" /\ Truthy(createResp.id))
        /\ toolResult.kind = "ok" => intervalId # "unset"

(* C15: in a session started by luma_generate_image, a 'completed'         *)
(* snapshot whose assets carry an image URL and no video makes the session *)
(* emit SUCCEEDED with imageUrl and resolve with the image URL.            *)
C15_ImageSessionReadsImageKey ==
    (/\ tool = "luma_generate_image"
     /\ last.result.kind = "ok"
     /\ last.result.state = "completed"
     /\ last.result.assets.present
     /\ last.result.assets.image = ImageUrl
     /\ last.result.assets.video = Undefined
     /\ Len(emitted) = 1) =>
        /\ emitted[1].status = "SUCCEEDED"
        /\ emitted[1].data = [key |-> "imageUrl", val |-> <<ImageUrl>>]
        /\ outcome = [state |-> "resolved", code |-> "none", value |-> <<ImageUrl>>]

(* C16: no poll session is ever started with an absent or empty job ID.    *)
C16_NoSessionWithoutJobId ==
    intervalId # "unset" => Truthy(taskId)

(* C17: at most one poll session is active at a time for a given job ID:   *)
(* two luma_upscale calls for the same generation never have their         *)
(* pollers armed on the same ID at the same time.                          *)
C17_OneSessionPerJobId ==
    ~(intervalId = "armed" /\ peer.intervalId = "armed" /\ peer.taskId = taskId)

\* the messages a poller delivers for the events of its session, in order
RECURSIVE Delivered(_, _, _)
Delivered(log, p, token) ==
    IF log = <<>> THEN <<>>
    ELSE sendProgress(Delivered(SubSeq(log, 1, Len(log) - 1), p, token), p, token,
                      log[Len(log)].status, log[Len(log)].data)

\* the poller messages on the channel that carry the token
PollerMessages(token) ==
    SelectSeq(channel, LAMBDA m : m.token = token /\ m.status # "INITIATED")

\* what holds of a session that runs alone, said of one session's own state:
\* its counters count its own ticks and fetches, its timer and its promise
\* follow its own events, and the channel carries its events in order
AsWhenAlone(id, p, token, att, timer, flight, fet, log, out) ==
    /\ fet = (IF att > MAX_POLLING_ATTEMPTS THEN MAX_POLLING_ATTEMPTS ELSE att)
    /\ Len(log) + Cardinality(flight) = att
    /\ \A i \in 1..Len(log) : log[i].tick \in 1..att
    /\ timer = "cleared" <=> HasTerminal(log)
    /\ out.state = "pending" <=> ~HasTerminal(log)
    /\ HasTerminal(log) =>
         LET f == FirstTerminal(log) IN
         out = IF f.status = "SUCCEEDED"
               THEN [state |-> "resolved", code |-> "none", value |-> f.data.val]
               ELSE [state |-> "rejected", code |-> "InternalError",
                     value |-> TimeoutMessageOf(id, p)]
    /\ PollerMessages(token) = Delivered(log, p, token)

(* C20: two sessions for different jobs are independent under every        *)
(* interleaving of their ticks and fetch completions: no step changes both *)
(* sessions, a session's tick is never held back by the other session, and *)
(* each session's attempt count, events (as delivered under its token) and *)
(* outcome are those its own ticks and fetch results give when it is alone. *)
C20_SessionsIndependent ==
    /\ [][ \/ <<attempts, intervalId, inflight, fetches, last, emitted, outcome>>'
                = <<attempts, intervalId, inflight, fetches, last, emitted, outcome>>
           \/ peer' = peer ]_vars
    /\ [](peer.taskId # taskId =>
            /\ AsWhenAlone(taskId, provider, progressToken, attempts, intervalId,
                           inflight, fetches, emitted, outcome)
            /\ peer.intervalId # "unset" =>
                 AsWhenAlone(peer.taskId, peer.provider, peer.progressToken, peer.attempts,
                             peer.intervalId, peer.inflight, peer.fetches, peer.emitted,
                             peer.outcome)
            /\ intervalId = "armed" => ENABLED (TickFetch \/ TickTimeout)
            /\ peer.intervalId = "armed" => ENABLED (PeerTickFetch \/ PeerTickTimeout))

\* two sessions for different jobs whose messages alternate on the channel:
\* the first one has succeeded and the other has timed out
C20_Witness ==
    /\ peer.taskId = OtherJobId
    /\ outcome.state = "resolved"
    /\ peer.outcome.state = "rejected"
    /\ Count(peer.emitted, "TIMEOUT") = 1
    /\ Len(channel) >= 5
    /\ channel[3].token # channel[4].token
    /\ channel[4].token # channel[5].token

\* the arguments of the request break the schema of the tool
ArgsInvalid ==
    \/ /\ tool \in {"generate_text_to_video", "generate_image_to_video"}
       /\ args.provider \notin {Undefined, "runwayml", "lumaai"}
    \/ tool = "generate_text_to_video" /\ args.prompt \in {Undefined, ""}
    \/ tool = "generate_image_to_video" /\ args.promptImage = Undefined
    \/ tool = "luma_generate_image" /\ args.prompt \in {Undefined, ""}
    \/ tool = "luma_upscale" /\ args.generation_id \in {Undefined, "not-a-uuid"}

(* C21: a call of a job-initiating tool whose arguments fail the schema     *)
(* fails at once with InvalidParams: once the call has been dispatched it   *)
(* has ended with that error, no create call was made on a provider, no     *)
(* poll session exists and nothing was emitted or sent.                     *)
C21_ValidationErrorStopsTheCall ==
    (ArgsInvalid /\ pc \notin {"start", "connected", "exited"}) =>
        /\ pc = "done"
        /\ toolResult = [kind |-> "error", code |-> "InvalidParams"]
        /\ created = <<>>
        /\ createResp = NoResult
        /\ intervalId = "unset"
        /\ fetches = 0
        /\ emitted = <<>>
        /\ channel = <<>>

\* a luma_upscale call with a generation_id that is not a UUID has ended
C21_Witness ==
    /\ tool = "luma_upscale"
    /\ args.generation_id = "not-a-uuid"
    /\ pc = "done"
    /\ toolResult.code = "InvalidParams"

\* the API key of a provider is set in the environment
HasCredential(p) ==
    IF p = "runwayml" THEN env.RUNWAYML_API_SECRET \notin {Undefined, ""}
                      ELSE env.LUMAAI_API_KEY \notin {Undefined, ""}

\* one of the three API keys is not set
SomeKeyMissing ==
    \/ env.RUNWAYML_API_SECRET \in {Undefined, ""}
    \/ env.OPENROUTER_API_KEY \in {Undefined, ""}
    \/ env.LUMAAI_API_KEY \in {Undefined, ""}

(* C22: a missing credential never reaches the poller: with one of the     *)
(* three API keys unset the server exits without connecting, so that no    *)
(* tool call is dispatched, no create call is made and no session exists;  *)
(* a create call is only ever made on a provider whose key is set, and a   *)
(* poll session only ever runs for a provider whose key is set.            *)
C22_MissingCredentialStopsTheServer ==
    /\ (SomeKeyMissing /\ pc # "start") =>
         /\ pc = "exited"
         /\ toolResult = NoToolResult
         /\ created = <<>>
         /\ intervalId = "unset"
         /\ channel = <<>>
    /\ \A i \in 1..Len(created) : HasCredential(created[i].provider)
    /\ intervalId # "unset" => HasCredential(provider)

\* the server was started without the Luma key and has exited
C22_Witness ==
    /\ env.LUMAAI_API_KEY = Undefined
    /\ env.RUNWAYML_API_SECRET # Undefined
    /\ env.OPENROUTER_API_KEY # Undefined
    /\ pc = "exited"

(* C23: within one session the progress events are emitted in tick order:  *)
(* an event produced by an earlier tick comes before every event produced  *)
(* by a later tick.                                                         *)
C23_EventsInTickOrder ==
    \A i, j \in 1..Len(emitted) : i < j => emitted[i].tick < emitted[j].tick

(* C24: when the request carries no progress token, the tool and the       *)
(* session it starts send nothing on the notification channel.             *)
C24_NoTokenNothingSent ==
    progressToken \in {Undefined, Null, ""} => channel = <<>>

\* this step makes a terminal sendProgress call
EmitsTerminal ==
    /\ Len(emitted') > Len(emitted)
    /\ \E i \in (Len(emitted) + 1)..Len(emitted') : emitted'[i].status \in TerminalStatuses

\* this step hands a terminal message to the channel
DeliversTerminal ==
    /\ Len(channel') = Len(channel) + 1
    /\ channel'[Len(channel')].status \in TerminalStatuses

(* C25: on every terminal path the timer is cleared, then the terminal     *)
(* event is emitted, then the promise is settled.  The timer is never      *)
(* armed once a terminal event has been emitted or the promise is settled; *)
(* the promise is only settled in a step that emits a terminal event with  *)
(* the timer cleared; and when the terminal send throws, the timer is      *)
(* already cleared and the promise has not been settled.                   *)
C25_ClearThenEmitThenSettle ==
    /\ [](HasTerminal(emitted) => intervalId = "cleared")
    /\ [](outcome.state # "pending" => (intervalId = "cleared" /\ HasTerminal(emitted)))
    /\ [][ outcome' # outcome => (EmitsTerminal /\ intervalId' = "cleared") ]_vars
    /\ [][ (EmitsTerminal /\ Truthy(progressToken) /\ ~DeliversTerminal) =>
             (intervalId' = "cleared" /\ outcome' = outcome) ]_vars

\* the send of a terminal status threw: the timer is cleared, the terminal
\* call was made, nothing terminal is on the channel and the promise is pending
C25_Witness ==
    /\ Truthy(progressToken)
    /\ HasStatusTerminal(emitted)
    /\ ~HasTerminal(channel)
    /\ intervalId = "cleared"
    /\ outcome.state = "pending"
    /\ attempts <= MAX_POLLING_ATTEMPTS

\* the status of the snapshot is outside the vocabulary of the provider
IsUnknownStatus(r) ==
    /\ r.kind = "ok"
    /\ IF provider = "runwayml"
       THEN r.status \notin {"PENDING", "RUNNING", "SUCCEEDED", "FAILED"}
       ELSE r.state \notin {"queued", "dreaming", "completed", "failed"}

\* the status of a snapshot as the provider gave it
RawStatus(r) == IF provider = "runwayml" THEN r.status ELSE r.state

C27_ErrorTicksCountThenTimeout ==
    (/\ intervalId = "cleared"
     /\ \A i \in 1..Len(emitted) : emitted[i].status \in {"POLLING_ERROR", "TIMEOUT"}) =>
        /\ fetches = MAX_POLLING_ATTEMPTS
        /\ IsTimedOut(outcome)
        /\ Len(emitted) = MAX_POLLING_ATTEMPTS + 1
        /\ \A i \in 1..MAX_POLLING_ATTEMPTS : emitted[i].status = "POLLING_ERROR"
        /\ emitted[MAX_POLLING_ATTEMPTS + 1].status = "TIMEOUT"

(* C28: every poll session terminates: as long as the timer keeps firing   *)
(* and the channel does not throw, the promise is eventually resolved or   *)
(* rejected, whatever the fetches return and even if none of them returns. *)
C28_SessionTerminates == <>(outcome.state # "pending")

\* no fetch of the session has returned and the session has timed out
C28_Witness ==
    /\ Cardinality(inflight) = MAX_POLLING_ATTEMPTS
    /\ emitted = <<[status |-> "TIMEOUT", data |-> NoData, tick |-> MAX_POLLING_ATTEMPTS + 1]>>
    /\ outcome.state = "rejected"

(* C29: each timer tick of a session makes at most one delivery attempt on *)
(* the notification channel, also when the attempt throws inside the tick: *)
(* in a session with a token no two sendProgress calls belong to one tick. *)
C29_OneDeliveryAttemptPerTick ==
    Truthy(progressToken) =>
        \A i, j \in 1..Len(emitted) : i # j => emitted[i].tick # emitted[j].tick

\* the event data a success must carry: the key of the expected result kind
\* and the URL read from the snapshot
SuccessData(r) ==
    IF provider = "runwayml" THEN [key |-> "videoUrl", val |-> <<r.output.list[1]>>]
    ELSE IF expectedAssetType = "video" THEN [key |-> "videoUrl", val |-> <<r.assets.video>>]
    ELSE IF expectedAssetType = "image" THEN [key |-> "imageUrl", val |-> <<r.assets.image>>]
    ELSE [key |-> "upscaledVideoUrl", val |-> <<r.assets.video>>]

(* C30: a SUCCEEDED event carries the asset URL under the key of the       *)
(* expected result kind (Luma: videoUrl from assets.video, imageUrl from   *)
(* assets.image, upscaledVideoUrl from assets.video; Runway: videoUrl from *)
(* the first element of output), the same data goes to the channel, and    *)
(* the promise resolves with the URL that the event carries.               *)
C30_SuccessAssetKey ==
    /\ [][ (IsReturnStep /\ emitted'[Len(emitted')].status = "SUCCEEDED") =>
             /\ emitted'[Len(emitted')].data = SuccessData(last'.result)
             /\ Truthy(progressToken) =>
                    /\ channel'[Len(channel')].status = "SUCCEEDED"
                    /\ channel'[Len(channel')].data = SuccessData(last'.result)
             /\ outcome.state = "pending" =>
                    outcome' = [state |-> "resolved", code |-> "none",
                                value |-> SuccessData(last'.result).val]
         ]_vars
    /\ [](outcome.state = "resolved" =>
            /\ HasTerminal(emitted)
            /\ FirstTerminal(emitted).status = "SUCCEEDED"
            /\ outcome.value = FirstTerminal(emitted).data.val)

\* a Luma session expecting an image has succeeded with the image URL
C30_Witness ==
    /\ expectedAssetType = "image"
    /\ Len(emitted) >= 1
    /\ emitted[Len(emitted)].status = "SUCCEEDED"
    /\ emitted[Len(emitted)].data = [key |-> "imageUrl", val |-> <<ImageUrl>>]
    /\ outcome = [state |-> "resolved", code |-> "none", value |-> <<ImageUrl>>]

(* C31: for a job started with a progress token at most one terminal      *)
(* message (SUCCEEDED, FAILED or TIMEOUT) is ever delivered on the channel, *)
(* counting those of the poller and of the tool's completion handler.      *)
C31_AtMostOneTerminalDelivered ==
    Truthy(progressToken) =>
        Cardinality({i \in 1..Len(channel) : channel[i].status \in TerminalStatuses}) <= 1

(* C32: when a tool has created its job, INITIATED is the first message   *)
(* of the call and precedes every event of the poll session; the session  *)
(* starts with no fetch issued, and a fetch is issued only by a timer     *)
(* tick, after the initiating call has returned.                           *)
C32_InitiatedFirstFetchOnTick ==
    /\ [](intervalId # "unset" =>
            /\ channel # <<>>
            /\ channel[1].status = "INITIATED"
            /\ channel[1].token = progressToken
            /\ \A i \in 2..Len(channel) : channel[i].status # "INITIATED")
    /\ [][(intervalId = "unset" /\ intervalId' # "unset") =>
            /\ fetches' = 0
            /\ attempts' = 0
            /\ inflight' = {}
            /\ emitted' = <<>>
            /\ Len(channel') = 1]_vars
    /\ [][fetches' # fetches =>
            /\ pc = "done"
            /\ intervalId = "armed"
            /\ fetches' = fetches + 1
            /\ attempts' = attempts + 1
            /\ channel' = channel]_vars

\* a session has started and its poller has emitted an event after INITIATED
C32_Witness ==
    /\ tool # "none"
    /\ fetches >= 1
    /\ emitted # <<>>
    /\ Len(channel) >= 2
    /\ channel[1].status = "INITIATED"

(* C33: when the provider's create call fails, the initiating call ends    *)
(* with an error, and no poll session is started, no timer is armed and    *)
(* no INITIATED message is sent.                                            *)
C33_CreateFailureNoSession ==
    (pc = "done" /\ createResp.kind = "error") =>
        /\ toolResult.kind = "error"
        /\ toolResult.code \in {"InvalidRequest", "InvalidParams", "InternalError"}
        /\ intervalId = "unset"
        /\ attempts = 0
        /\ fetches = 0
        /\ inflight = {}
        /\ emitted = <<>>
        /\ channel = <<>>
        /\ outcome = Pending

\* the create call of a tool has failed and the call has ended
C33_Witness ==
    /\ pc = "done"
    /\ created # <<>>
    /\ createResp.kind = "error"
    /\ toolResult.kind = "error"

====
